---------------------------- MODULE Spec2Model ----------------------------
(***************************************************************************)
(* Model of lib/jpegli/dct.cc: the forward 8x8 DCT, the two quantizers,    *)
(* the block iteration driver ComputeDCTCoefficients, and the butteraugli  *)
(* comparison tool (RunButteraugli / main) that follows it in the file.    *)
(*                                                                         *)
(* Numbers.  A float is modelled as an integer count of 2^-FracBits (a     *)
(* fixed-point value): additions and subtractions are exact, a product     *)
(* with a table constant is rounded to the nearest representable value,    *)
(* as the float product is.  Products compared in the quantizers are kept  *)
(* as exact fractions over One*One, so a comparison with the threshold and *)
(* the roundings to integer are decided exactly.                           *)
(*                                                                         *)
(* Arrays.  A float[64] / coeff_t[64] buffer is a function on 0..63; a     *)
(* lane of a DCT1DImpl<N> buffer (the elements mem[i*8 + lane], i < N) is  *)
(* a function on 0..N-1: every operation of the 1D engine is elementwise   *)
(* over lanes, so each lane is transformed independently.                  *)
(***************************************************************************)
EXTENDS Integers, Sequences, FiniteSets, TLC

\* ------------------------------------------------------------- bounds
\* fractional bits of the fixed-point representation of a float
FracBits == 4
\* largest number of iMCU rows (row bands) of an image
MaxBands == 2
\* largest vertical sampling factor of a component
MaxVSamp == 2
\* largest number of components
MaxComponents == 2
\* largest width of a component, in blocks
MaxWidthBlocks == 1

\* number of 8x8 buffers tried by the transpose runs
MaxBuffers == 16
\* number of coefficient blocks tried by the quantizer runs
MaxDctBlocks == 4
\* number of lane vectors tried by the 1D DCT runs
MaxLanes == 30
\* largest number of command-line arguments after the two image paths
MaxFlagArgs == 2

\* ---------------------------------------------------------- constants
kDCTBlockSize == 64
kDCBias == 128

One == 2 ^ FracBits

\* ---------------------------------------------------------- arithmetic
AbsInt(x) == IF x < 0 THEN -x ELSE x

MinInt(a, b) == IF a < b THEN a ELSE b

\* n / d rounded to the nearest integer (d > 0), the rounding of a float
\* operation's exact result to a representable value
RoundDiv(n, d) ==
  IF n >= 0 THEN (2 * n + d) \div (2 * d) ELSE -((2 * (-n) + d) \div (2 * d))

\* hwy Round: n / d to the nearest integer, ties to even (d > 0)
RoundNearestEven(n, d) ==
  LET a == AbsInt(n)
      q == a \div d
      r == a % d
      m == IF 2 * r < d THEN q
           ELSE IF 2 * r > d THEN q + 1
           ELSE IF q % 2 = 0 THEN q ELSE q + 1
  IN IF n < 0 THEN -m ELSE m

\* std::round: n / d to the nearest integer, ties away from zero (d > 0)
StdRound(n, d) ==
  LET a == AbsInt(n)
      m == (2 * a + d) \div (2 * d)
  IN IF n < 0 THEN -m ELSE m

\* hwy DemoteTo(di16, .): int32 to int16, saturating
DemoteTo(x) == IF x > 32767 THEN 32767 ELSE IF x < -32768 THEN -32768 ELSE x

\* ------------------------------------------------------ vector helpers
\* a buffer as it stands in memory once written: every element computed
Stored(f) == f @@ << >>

\* the n elements of buffer a starting at off
Slice(a, off, n) == Stored([i \in 0 .. n - 1 |-> a[off + i]])

\* lo followed by hi, each of n elements
Join(lo, hi, n) == Stored([i \in 0 .. 2 * n - 1 |-> IF i < n THEN lo[i] ELSE hi[i - n]])

\* hwy InterleaveLower on a vector of L lanes, per 128-bit block of 4 lanes
InterleaveLower(a, b, L) ==
  Stored([i \in 0 .. L - 1 |->
     LET blk == 4 * (i \div 4)
         j == i % 4
     IN IF j % 2 = 0 THEN a[blk + j \div 2] ELSE b[blk + j \div 2]])

\* hwy InterleaveUpper on a vector of L lanes, per 128-bit block of 4 lanes
InterleaveUpper(a, b, L) ==
  Stored([i \in 0 .. L - 1 |->
     LET blk == 4 * (i \div 4)
         j == i % 4
     IN IF j % 2 = 0 THEN a[blk + 2 + j \div 2] ELSE b[blk + 2 + j \div 2]])

\* ConcatLowerLower with its operands taken as (lo, hi)
ConcatLowerLowerSwapped(hi, lo) ==
  Stored([i \in 0 .. 7 |-> IF i < 4 THEN hi[i] ELSE lo[i - 4]])

\* hwy ConcatLowerLower(d, hi, lo) on 8 lanes: lower half of lo, lower half of hi
ConcatLowerLower(hi, lo) == Stored([i \in 0 .. 7 |-> IF i < 4 THEN lo[i] ELSE hi[i - 4]])

\* hwy ConcatUpperUpper(d, hi, lo) on 8 lanes: upper half of lo, upper half of hi
ConcatUpperUpper(hi, lo) == Stored([i \in 0 .. 7 |-> IF i < 4 THEN lo[i + 4] ELSE hi[i]])

\* ------------------------------------------------------- 8x8 transpose
\* HWY_CAP_GE256: eight 8-lane rows, two interleave rounds, one concat round
Transpose8x8Block256(from) ==
  LET i0 == Slice(from, 0, 8)
      i1 == Slice(from, 8, 8)
      i2 == Slice(from, 16, 8)
      i3 == Slice(from, 24, 8)
      i4 == Slice(from, 32, 8)
      i5 == Slice(from, 40, 8)
      i6 == Slice(from, 48, 8)
      i7 == Slice(from, 56, 8)
      q0 == InterleaveLower(i0, i2, 8)
      q1 == InterleaveLower(i1, i3, 8)
      q2 == InterleaveUpper(i0, i2, 8)
      q3 == InterleaveUpper(i1, i3, 8)
      q4 == InterleaveLower(i4, i6, 8)
      q5 == InterleaveLower(i5, i7, 8)
      q6 == InterleaveUpper(i4, i6, 8)
      q7 == InterleaveUpper(i5, i7, 8)
      r0 == InterleaveLower(q0, q1, 8)
      r1 == InterleaveUpper(q0, q1, 8)
      r2 == InterleaveLower(q2, q3, 8)
      r3 == InterleaveUpper(q2, q3, 8)
      r4 == InterleaveLower(q4, q5, 8)
      r5 == InterleaveUpper(q4, q5, 8)
      r6 == InterleaveLower(q6, q7, 8)
      r7 == InterleaveUpper(q6, q7, 8)
      o == << ConcatLowerLower(r4, r0), ConcatLowerLower(r5, r1),
              ConcatLowerLower(r6, r2), ConcatLowerLower(r7, r3),
              ConcatUpperUpper(r4, r0), ConcatUpperUpper(r5, r1),
              ConcatUpperUpper(r6, r2), ConcatUpperUpper(r7, r3) >>
  IN Stored([k \in 0 .. 63 |-> o[k \div 8 + 1][k % 8]])

\* one 4x4 tile of the 4-lane strategy: rows n..n+3, columns m..m+3 of from,
\* as the four vectors r0..r3 stored at rows m..m+3, columns n..n+3 of to
Transpose4x4Tile(from, n, m) ==
  LET p0 == Slice(from, n * 8 + m, 4)
      p1 == Slice(from, (n + 1) * 8 + m, 4)
      p2 == Slice(from, (n + 2) * 8 + m, 4)
      p3 == Slice(from, (n + 3) * 8 + m, 4)
      q0 == InterleaveLower(p0, p2, 4)
      q1 == InterleaveLower(p1, p3, 4)
      q2 == InterleaveUpper(p0, p2, 4)
      q3 == InterleaveUpper(p1, p3, 4)
  IN << InterleaveLower(q0, q1, 4), InterleaveUpper(q0, q1, 4),
        InterleaveLower(q2, q3, 4), InterleaveUpper(q2, q3, 4) >>

\* HWY_TARGET != HWY_SCALAR, below 256 bits: the four 4x4 tiles (n, m) in
\* {0, 4} x {0, 4}, tile (n, m) of from landing at tile (m, n) of to
Transpose8x8Block128(from) ==
  LET tiles == << << Transpose4x4Tile(from, 0, 0), Transpose4x4Tile(from, 0, 4) >>,
                  << Transpose4x4Tile(from, 4, 0), Transpose4x4Tile(from, 4, 4) >> >>
  IN Stored([k \in 0 .. 63 |->
       LET row == k \div 8
           col == k % 8
           m == 4 * (row \div 4)
           n == 4 * (col \div 4)
       IN tiles[n \div 4 + 1][m \div 4 + 1][row - m + 1][col - n]])

\* HWY_SCALAR: to[8 * n + m] = from[8 * m + n]
Transpose8x8BlockScalar(from) ==
  Stored([k \in 0 .. 63 |-> from[8 * (k % 8) + k \div 8]])

Targets == {"GE256", "VEC128", "SCALAR"}

\* the strategy the build for `target` compiles
Transpose8x8Block(from, target) ==
  CASE target = "GE256" -> Transpose8x8Block256(from)
    [] target = "VEC128" -> Transpose8x8Block128(from)
    [] OTHER -> Transpose8x8BlockScalar(from)


\* ------------------------------------------------------ 1D forward DCT
\* a float table constant c, held as round(c * 1024), times x
MulConst(x, c) == RoundDiv(x * c, 1024)

\* kSqrt2 = 1.41421356237f, times 1024
kSqrt2 == 1448

\* WcMultipliers<N>::kMultipliers, times 1024 (index i of the code is i + 1)
WcMultipliers(N) ==
  IF N = 4 THEN << 554, 1338 >> ELSE << 522, 616, 922, 2624 >>

\* AddReverse<N>: aout[i] = ain1[i] + ain2[N - i - 1]
AddReverse(N, ain1, ain2) == Stored([i \in 0 .. N - 1 |-> ain1[i] + ain2[N - i - 1]])

\* SubReverse<N>: aout[i] = ain1[i] - ain2[N - i - 1]
SubReverse(N, ain1, ain2) == Stored([i \in 0 .. N - 1 |-> ain1[i] - ain2[N - i - 1]])

\* B<N>: coeff[0] = coeff[0] * sqrt2 + coeff[1] (one fused multiply-add), then
\* coeff[i] += coeff[i + 1] for 1 <= i < N - 1, every read of coeff[i + 1]
\* coming before its own update; the last element is left alone
B(N, coeff) ==
  Stored([i \in 0 .. N - 1 |->
     IF i = 0 THEN RoundDiv(coeff[0] * kSqrt2 + coeff[1] * 1024, 1024)
     ELSE IF i + 1 < N THEN coeff[i] + coeff[i + 1]
     ELSE coeff[i]])

\* InverseEvenOdd<N>: aout[2 i] = ain[i], aout[2 (i - N/2) + 1] = ain[i]
InverseEvenOdd(N, ain) ==
  Stored([k \in 0 .. N - 1 |->
     IF k % 2 = 0 THEN ain[k \div 2] ELSE ain[N \div 2 + (k - 1) \div 2]])

\* Multiply<N>: coeff[N/2 + i] *= kMultipliers[i], the lower half left alone
Multiply(N, coeff) ==
  Stored([k \in 0 .. N - 1 |->
     IF k < N \div 2 THEN coeff[k]
     ELSE MulConst(coeff[k], WcMultipliers(N)[k - N \div 2 + 1])])

RECURSIVE DCT1DImpl(_, _)

\* the multiplier table of size N applied to a half of N/2 elements
MultiplyHalf(N, half) ==
  Stored([i \in 0 .. N \div 2 - 1 |-> MulConst(half[i], WcMultipliers(N)[i + 1])])

\* DCT1DImpl with the difference half transformed, boundary-corrected and
\* only then multiplied
DCT1DImplMultiplyLast(N, mem) ==
  IF N = 1 THEN mem
  ELSE IF N = 2 THEN Stored([i \in 0 .. 1 |-> IF i = 0 THEN mem[0] + mem[1]
                                                 ELSE mem[0] - mem[1]])
  ELSE
    LET h == N \div 2
        lo == Slice(mem, 0, h)
        hi == Slice(mem, h, h)
        sum == DCT1DImpl(h, AddReverse(h, lo, hi))
        dif == MultiplyHalf(N, B(h, DCT1DImpl(h, SubReverse(h, lo, hi))))
    IN InverseEvenOdd(N, Join(sum, dif, h))

\* DCT1DImpl<N>::operator(), one lane; tmp is the N-element scratch, written
\* statement by statement in the order of the code
DCT1DImpl(N, mem) ==
  IF N = 1 THEN mem
  ELSE IF N = 2 THEN Stored([i \in 0 .. 1 |-> IF i = 0 THEN mem[0] + mem[1]
                                                 ELSE mem[0] - mem[1]])
  ELSE
    LET h == N \div 2
        lo == Slice(mem, 0, h)
        hi == Slice(mem, h, h)
        \* AddReverse<N/2>(mem, mem + N*4, tmp); DCT1DImpl<N/2>()(tmp)
        sum == DCT1DImpl(h, AddReverse(h, lo, hi))
        \* SubReverse<N/2>(mem, mem + N*4, tmp + N*4)
        tmp1 == Join(sum, SubReverse(h, lo, hi), h)
        \* Multiply<N>(tmp)
        tmp2 == Multiply(N, tmp1)
        \* DCT1DImpl<N/2>()(tmp + N*4); B<N/2>(tmp + N*4)
        dif == B(h, DCT1DImpl(h, Slice(tmp2, h, h)))
        \* InverseEvenOdd<N>(tmp, mem)
    IN InverseEvenOdd(N, Join(Slice(tmp2, 0, h), dif, h))

\* DCT1D without the 1/8 of StoreToBlockAndScale
DCT1DUnscaled(pixels) ==
  LET col(j) == DCT1DImpl(8, Stored([i \in 0 .. 7 |-> pixels[i * 8 + j]]))
      cols == Stored([j \in 0 .. 7 |-> col(j)])
  IN Stored([k \in 0 .. 63 |-> cols[k % 8][k \div 8]])

\* DCT1D: for every lane (column off + l of the 8 rows read with stride 8),
\* LoadFromBlock, DCT1DImpl<8>, StoreToBlockAndScale (times 1/8)
DCT1D(pixels) ==
  LET col(j) == DCT1DImpl(8, Stored([i \in 0 .. 7 |-> pixels[i * 8 + j]]))
      cols == Stored([j \in 0 .. 7 |-> col(j)])
  IN Stored([k \in 0 .. 63 |-> RoundDiv(cols[k % 8][k \div 8], 8)])

\* TransformFromPixels on an 8x8 window (already gathered with the plane's
\* stride): DCT1D, transpose, DCT1D, transpose
TransformFromPixels(pixels, target) ==
  LET s1 == DCT1D(pixels)
      c1 == Transpose8x8Block(s1, target)
      s2 == DCT1D(c1)
  IN Transpose8x8Block(s2, target)

\* ----------------------------------------------------------- quantizers
\* QuantizeBlock with Gt in place of Ge
QuantizeBlockStrict(dct, qmc, zero_bias2) ==
  Stored([k \in 0 .. kDCTBlockSize - 1 |->
     LET qval == dct[k] * qmc[k]
         nzero_mask == 2 * AbsInt(qval) > zero_bias2
     IN DemoteTo(IF nzero_mask THEN RoundNearestEven(qval, One * One) ELSE 0)])

\* QuantizeBlock: qval = dct[k] * qmc[k] (a fraction over One * One);
\* block[k] = |qval| >= zero_bias ? Round(qval) : 0.  zero_bias2 is twice the
\* threshold, over One * One
QuantizeBlock(dct, qmc, zero_bias2) ==
  Stored([k \in 0 .. kDCTBlockSize - 1 |->
     LET qval == dct[k] * qmc[k]
         nzero_mask == 2 * AbsInt(qval) >= zero_bias2
     IN DemoteTo(IF nzero_mask THEN RoundNearestEven(qval, One * One) ELSE 0)])

\* QuantizeBlockNoAQ converting by truncation, without Round
QuantizeBlockNoAQTruncating(dct, qmc) ==
  Stored([k \in 0 .. kDCTBlockSize - 1 |->
     LET qval == dct[k] * qmc[k]
         t == AbsInt(qval) \div (One * One)
     IN DemoteTo(IF qval < 0 THEN -t ELSE t)])

\* QuantizeBlockNoAQ: block[k] = Round(dct[k] * qmc[k])
QuantizeBlockNoAQ(dct, qmc) ==
  Stored([k \in 0 .. kDCTBlockSize - 1 |->
     DemoteTo(RoundNearestEven(dct[k] * qmc[k], One * One))])

\* zero_bias with the product subtracted
ZeroBias2Subtracting(zero_bias_mul, relq) ==
  MinInt(3 * One * One, One * One - 2 * zero_bias_mul * relq)

\* zero_bias = min(1.5f, 0.5f + zero_bias_mul * relq), doubled, over One * One
ZeroBias2(zero_bias_mul, relq) ==
  MinInt(3 * One * One, One * One + 2 * zero_bias_mul * relq)

\* block[0] = std::round((dct[0] - kDCBias) * qmc[0])
CenterDC(dct, qmc) == StdRound((dct[0] - kDCBias * One) * qmc[0], One * One)


\* ------------------------------------------------------------ inputs
\* contents of a component's pixel plane (raw_data[c]), by pattern: the sample
\* at row y, column x, an 8-bit value
Patterns == {"flat128", "dark8", "abba3", "abba2", "ramp", "impulse"}

Pixel(pat, y, x) ==
  CASE pat = "flat128" -> 128
    [] pat = "dark8" -> 8
    [] pat = "abba3" -> IF (x % 4) \in {0, 3} THEN 130 ELSE 127
    [] pat = "abba2" -> IF (x % 4) \in {0, 3} THEN 12 ELSE 10
    [] pat = "ramp" -> (10 * x + 3 * y) % 256
    [] OTHER -> IF x % 8 = 0 /\ y % 8 = 0 THEN 255 ELSE 0

\* quant multiplier tables (quant_mul[c]), by name
QuantTables == {"unit", "eighth", "slope"}

QuantMul(tab) ==
  Stored([k \in 0 .. kDCTBlockSize - 1 |->
     CASE tab = "unit" -> One
       [] tab = "eighth" -> One \div 8
       [] OTHER -> One \div (1 + (k \div 8 + (k % 8)) \div 2)])

\* adaptive quantization fields (quant_field), by name: the value at row y,
\* column x; the field holds non-negative strengths
QuantFields == {"zero", "two", "mixed"}

QuantFieldAt(qf, y, x) ==
  CASE qf = "zero" -> 0
    [] qf = "two" -> 2 * One
    [] OTHER -> ((x + y) % 3) * One

\* zero_bias_mul[c] values: 0, 0.5, 1
ZeroBiasMuls == {0, One \div 2, One}

\* ------------------------------------------------------------- state
VARIABLES
  cinfo,            \* the compress object's fields read by the driver
  next_iMCU_row,    \* m->next_iMCU_row
  coeff_buffers,    \* the block store: <<c, by, bx>> -> coefficient block
  dct_log,          \* the local dct[] as it was when <<c, by, bx>> was written
  write_log,        \* every block write: [c, by, bx, iMCU_row]
  barray_log,       \* every access_virt_barray request
  deref_log,        \* every ba[iy] dereferenced
  tp,               \* transpose run: [from, to, target, passes]
  qz,               \* quantizer run
  d1,               \* 1D DCT run
  tool              \* comparison tool run

vars == << cinfo, next_iMCU_row, coeff_buffers, dct_log, write_log, barray_log,
           deref_log, tp, qz, d1, tool >>

driver_vars == << cinfo, next_iMCU_row, coeff_buffers, dct_log, write_log,
                  barray_log, deref_log >>

Idle == [pc |-> "idle"]

\* --------------------------------------------------- block driver
Comps == 0 .. cinfo.num_components - 1

\* the 8x8 window plane->Row(8 * by) + 8 * bx read with plane->stride()
Window(pat, by, bx) ==
  Stored([k \in 0 .. 63 |-> One * Pixel(pat, 8 * by + k \div 8, 8 * bx + (k % 8))])

\* int by0 = m->next_iMCU_row * comp->v_samp_factor
By0(c) == next_iMCU_row * cinfo.comp_info[c].v_samp_factor

\* int block_rows_left = comp->height_in_blocks - by0
BlockRowsLeft(c) == cinfo.comp_info[c].height_in_blocks - By0(c)

\* max_block_rows without the std::min
MaxBlockRowsFull(c) == cinfo.comp_info[c].v_samp_factor

\* int max_block_rows = std::min(comp->v_samp_factor, block_rows_left)
MaxBlockRows(c) == MinInt(cinfo.comp_info[c].v_samp_factor, BlockRowsLeft(c))

\* the loop over iy without its continue
SkipRowNever(c, by) == FALSE

\* if (by >= comp->height_in_blocks) continue
SkipRow(c, by) == by >= cinfo.comp_info[c].height_in_blocks

\* the iy of the loop over v_samp_factor whose body runs (ba[iy] is read)
RowsVisited(c) ==
  {iy \in 0 .. cinfo.comp_info[c].v_samp_factor - 1 : ~SkipRow(c, By0(c) + iy)}

\* float relq = m->quant_field.Row(by * v_factor)[bx * h_factor]
RelQ(c, by, bx) ==
  QuantFieldAt(cinfo.quant_field, by * cinfo.v_factor[c], bx * cinfo.h_factor[c])

\* the quantizer variant chosen by m->use_adaptive_quantization
Quantize(c, by, bx, dct) ==
  IF cinfo.use_adaptive_quantization
  THEN QuantizeBlock(dct, QuantMul(cinfo.quant_mul[c]),
                     ZeroBias2(cinfo.zero_bias_mul[c], RelQ(c, by, bx)))
  ELSE QuantizeBlockNoAQ(dct, QuantMul(cinfo.quant_mul[c]))

\* the loop body without its last statement
StoreDCSkipped(block, dct, qmc) == block

\* block[0] = std::round((dct[0] - kDCBias) * qmc[0]), after the quantizer
StoreDC(block, dct, qmc) == [block EXCEPT ![0] = CenterDC(dct, qmc)]

\* the <<c, by, bx>> of the blocks one invocation visits: every component,
\* every block row of the band that is not skipped, every block column
BlocksVisited ==
  UNION {{<< c, By0(c) + iy, bx >> :
            iy \in RowsVisited(c),
            bx \in 0 .. cinfo.comp_info[c].width_in_blocks - 1} : c \in Comps}

\* the body of the loop over bx: the local dct after TransformFromPixels and
\* the block as the body leaves it
BlockBody(c, by, bx) ==
  LET dct == TransformFromPixels(Window(cinfo.raw_data[c], by, bx), cinfo.target)
  IN [dct |-> dct,
      block |-> StoreDC(Quantize(c, by, bx, dct), dct, QuantMul(cinfo.quant_mul[c]))]

\* one invocation, for the iMCU row next_iMCU_row; the caller's loop over the
\* iMCU rows then moves to the next row
ComputeDCTCoefficients ==
  /\ cinfo.pc = "encode"
  /\ next_iMCU_row < cinfo.total_iMCU_rows
  /\ \E res \in {Stored([k \in BlocksVisited |-> BlockBody(k[1], k[2], k[3])])} :
       /\ coeff_buffers' = [k \in (DOMAIN coeff_buffers) \cup (DOMAIN res) |->
                              IF k \in DOMAIN res THEN res[k].block
                              ELSE coeff_buffers[k]]
       /\ dct_log' = [k \in (DOMAIN dct_log) \cup (DOMAIN res) |->
                        IF k \in DOMAIN res THEN res[k].dct ELSE dct_log[k]]
       /\ write_log' = write_log \cup
            {[c |-> k[1], by |-> k[2], bx |-> k[3], iMCU_row |-> next_iMCU_row] :
               k \in DOMAIN res}
  /\ barray_log' = barray_log \cup
       {[c |-> c, iMCU_row |-> next_iMCU_row, start_row |-> By0(c),
         num_rows |-> MaxBlockRows(c)] : c \in Comps}
  /\ deref_log' = deref_log \cup
       UNION {{[c |-> c, iMCU_row |-> next_iMCU_row, iy |-> iy] :
                 iy \in RowsVisited(c)} : c \in Comps}
  /\ next_iMCU_row' = next_iMCU_row + 1
  /\ UNCHANGED << cinfo, tp, qz, d1, tool >>

\* the component descriptors an image of K iMCU rows can have: K is the number
\* of bands of v_samp_factor block rows that cover height_in_blocks
CompInfos(K, w) ==
  UNION {{[v_samp_factor |-> v, height_in_blocks |-> h, width_in_blocks |-> w] :
            h \in (K - 1) * v + 1 .. K * v} : v \in 1 .. MaxVSamp}

MaxOf(S) == CHOOSE x \in S : \A y \in S : y <= x

\* the compress object for a geometry and contents; h_factor and v_factor are
\* the ratio of the largest sampling factor to the component's
MakeCinfo(n, K, ci, aq, z, tab, pat, qf, target) ==
  LET max_v == MaxOf({ci[c].v_samp_factor : c \in 0 .. n - 1})
  IN [pc |-> "encode", num_components |-> n, total_iMCU_rows |-> K,
      comp_info |-> ci, use_adaptive_quantization |-> aq,
      zero_bias_mul |-> [c \in 0 .. n - 1 |-> z],
      quant_mul |-> [c \in 0 .. n - 1 |-> tab],
      raw_data |-> [c \in 0 .. n - 1 |-> pat],
      h_factor |-> [c \in 0 .. n - 1 |-> max_v \div ci[c].v_samp_factor],
      v_factor |-> [c \in 0 .. n - 1 |-> max_v \div ci[c].v_samp_factor],
      quant_field |-> qf, target |-> target]

\* every geometry within the bounds with one choice of contents.  The driver
\* handles each component on its own, so the components are listed by
\* non-increasing v_samp_factor
InitGeometry ==
  \E n \in 1 .. MaxComponents, K \in 1 .. MaxBands, w \in 1 .. MaxWidthBlocks :
    \E ci \in [0 .. n - 1 -> CompInfos(K, w)] :
      /\ \A c \in 1 .. n - 1 : ci[c].v_samp_factor <= ci[c - 1].v_samp_factor
      /\ cinfo = MakeCinfo(n, K, ci, TRUE, One \div 2, "slope", "ramp", "mixed",
                           "SCALAR")

\* every choice of contents with one geometry: a full-resolution component of
\* two block rows and a subsampled one of one block row, in one iMCU row
InitContents ==
  \E aq \in BOOLEAN, z \in ZeroBiasMuls, tab \in QuantTables, pat \in Patterns,
     qf \in QuantFields, target \in Targets :
    cinfo = MakeCinfo(2, 1,
              [c \in 0 .. 1 |->
                 IF c = 0
                 THEN [v_samp_factor |-> 2, height_in_blocks |-> 2, width_in_blocks |-> 2]
                 ELSE [v_samp_factor |-> 1, height_in_blocks |-> 1, width_in_blocks |-> 1]],
              aq, z, tab, pat, qf, target)

\* the driver's state before the first invocation
DriverStart ==
  /\ next_iMCU_row = 0
  /\ coeff_buffers = << >>
  /\ dct_log = << >>
  /\ write_log = {}
  /\ barray_log = {}
  /\ deref_log = {}

Init ==
  /\ InitGeometry \/ InitContents
  /\ DriverStart
  /\ tp = Idle
  /\ qz = Idle
  /\ d1 = Idle
  /\ tool = Idle

Next == ComputeDCTCoefficients

Spec == Init /\ [][Next]_vars


\* ------------------------------------------------- properties: driver
CompOf(c) == cinfo.comp_info[c]

\* 2 * |v * d - n| <= d: v is n / d rounded to a nearest integer (d > 0)
IsNearestInt(v, n, d) == 2 * AbsInt(v * d - n) <= d

\* the invocations (iMCU rows) recorded as writing block <<c, by, bx>>
WritersOf(c, by, bx) ==
  {e.iMCU_row : e \in {w \in write_log : w.c = c /\ w.by = by /\ w.bx = bx}}

\* C1: over the invocations for iMCU rows 0 .. K-1, no block row at or beyond
\* height_in_blocks is ever written, no block is written by two invocations,
\* and once all K invocations have run every block of every component has
\* been written by exactly one of them.
C1_EachBlockWrittenOnce ==
  /\ \A e \in write_log : e.by < CompOf(e.c).height_in_blocks
  /\ \A e \in write_log : Cardinality(WritersOf(e.c, e.by, e.bx)) = 1
  /\ next_iMCU_row = cinfo.total_iMCU_rows =>
       \A c \in Comps :
         \A by \in 0 .. CompOf(c).height_in_blocks - 1 :
           \A bx \in 0 .. CompOf(c).width_in_blocks - 1 :
             Cardinality(WritersOf(c, by, bx)) = 1

\* all bands done for an image of two bands whose last band is partial for
\* some component
C1_Witness ==
  /\ cinfo.total_iMCU_rows = 2
  /\ next_iMCU_row = 2
  /\ \E c \in Comps :
       CompOf(c).height_in_blocks < 2 * CompOf(c).v_samp_factor

\* the quant multiplier table of block k's component
QmcOf(k) == QuantMul(cinfo.quant_mul[k[1]])

\* the threshold of block k as the spec states it, doubled, over One * One
ThresholdOf(k) ==
  MinInt(3 * One * One,
         One * One + 2 * cinfo.zero_bias_mul[k[1]]
                       * QuantFieldAt(cinfo.quant_field, k[2] * cinfo.v_factor[k[1]],
                                      k[3] * cinfo.h_factor[k[1]]))

\* C2: index 0 of every block written is (dct[0] - 128) * qmc[0], from the
\* unquantized DC coefficient, rounded to a nearest integer, with adaptive
\* quantization on or off and whatever the threshold.
C2_DCFromUnquantized ==
  \A k \in DOMAIN coeff_buffers :
    IsNearestInt(coeff_buffers[k][0],
                 (dct_log[k][0] - 128 * One) * QmcOf(k)[0], One * One)

\* a block written with adaptive quantization on whose DC product is inside
\* the dead zone and whose DC output is not zero
C2_Witness ==
  /\ cinfo.use_adaptive_quantization
  /\ \E k \in DOMAIN coeff_buffers :
       /\ 2 * AbsInt(dct_log[k][0] * QmcOf(k)[0]) < ThresholdOf(k)
       /\ coeff_buffers[k][0] # 0

\* C3: with adaptive quantization on, every position 1..63 of every block
\* written is 0 when |dct[i] * qmc[i]| is below min(1.5, 0.5 + zero_bias_mul[c]
\* * relq), relq being the field value at (by * v_factor, bx * h_factor), and
\* the product rounded to a nearest integer otherwise, equality included.
C3_DeadZoneRule ==
  cinfo.use_adaptive_quantization =>
    \A k \in DOMAIN coeff_buffers :
      \A qmc \in {QmcOf(k)} :
        \A i \in 1 .. 63 :
          IF 2 * AbsInt(dct_log[k][i] * qmc[i]) < ThresholdOf(k)
          THEN coeff_buffers[k][i] = 0
          ELSE IsNearestInt(coeff_buffers[k][i], dct_log[k][i] * qmc[i], One * One)

\* a block with a product exactly at the threshold, rounded to a nonzero value
C3_Witness ==
  /\ cinfo.use_adaptive_quantization
  /\ \E k \in DOMAIN coeff_buffers :
       \E qmc \in {QmcOf(k)} :
         \E i \in 1 .. 63 :
           /\ 2 * AbsInt(dct_log[k][i] * qmc[i]) = ThresholdOf(k)
           /\ coeff_buffers[k][i] # 0

\* the window of block k holds 128 in all 64 samples
IsFlat128(k) ==
  \A w \in {Window(cinfo.raw_data[k[1]], k[2], k[3])} :
    \A i \in 0 .. 63 : w[i] = 128 * One

\* C6: for a window of 64 samples equal to 128 the transform gives exactly
\* 128 at index 0 and 0 at indices 1..63, and the block written is all zero,
\* with either quantizer, every quant multiplier table and every threshold.
C6_Flat128IsZero ==
  \A k \in DOMAIN coeff_buffers :
    IsFlat128(k) =>
      /\ dct_log[k][0] = 128 * One
      /\ \A i \in 1 .. 63 : dct_log[k][i] = 0
      /\ \A i \in 0 .. 63 : coeff_buffers[k][i] = 0

\* a flat-128 block written by the adaptive quantizer with a multiplier
\* table other than the unit one, at the largest threshold
C6_Witness ==
  /\ cinfo.use_adaptive_quantization
  /\ \E k \in DOMAIN coeff_buffers :
       /\ IsFlat128(k)
       /\ cinfo.quant_mul[k[1]] = "slope"
       /\ ThresholdOf(k) = 3 * One * One

\* C10: every window request is for rows [by0, by0 + max_block_rows) with
\* by0 = iMCU_row * v_samp_factor and max_block_rows = min(v_samp_factor,
\* height_in_blocks - by0); every ba[iy] read has 0 <= iy < max_block_rows;
\* and the number of block rows written in the invocation is max_block_rows
\* whenever that is not negative.
C10_WindowCoversRowsRead ==
  \A r \in barray_log :
    LET v == CompOf(r.c).v_samp_factor
        by0 == r.iMCU_row * v
        rows_written ==
          {e.by : e \in {w \in write_log : w.c = r.c /\ w.iMCU_row = r.iMCU_row}}
    IN /\ r.start_row = by0
       /\ r.num_rows = MinInt(v, CompOf(r.c).height_in_blocks - by0)
       /\ \A d \in deref_log :
            (d.c = r.c /\ d.iMCU_row = r.iMCU_row) => (0 <= d.iy /\ d.iy < r.num_rows)
       /\ r.num_rows >= 0 => Cardinality(rows_written) = r.num_rows

\* a request for a partial band (fewer rows than v_samp_factor) whose rows
\* have been read
C10_Witness ==
  \E r \in barray_log :
    /\ r.num_rows < CompOf(r.c).v_samp_factor
    /\ r.num_rows >= 1
    /\ \E d \in deref_log :
         d.c = r.c /\ d.iMCU_row = r.iMCU_row /\ d.iy = r.num_rows - 1

\* ------------------------------------------------- transpose, run on its own
\* the 8x8 buffers handed to Transpose8x8Block: 64 distinct values each
TransposeInput(id) ==
  Stored([k \in 0 .. kDCTBlockSize - 1 |-> ((2 * id + 1) * k + 7 * id) % kDCTBlockSize])

InitTranspose ==
  /\ \E id \in 0 .. MaxBuffers - 1, target \in Targets :
       tp = [pc |-> "transpose", from |-> TransposeInput(id), target |-> target,
             passes |-> 0, first |-> << >>, to |-> TransposeInput(id)]
  /\ cinfo = Idle /\ DriverStart
  /\ qz = Idle /\ d1 = Idle /\ tool = Idle

\* one call Transpose8x8Block(from, to) on the result of the previous call
TransposeCall ==
  /\ tp.pc = "transpose"
  /\ tp.passes < 2
  /\ \E res \in {Transpose8x8Block(tp.to, tp.target)} :
       tp' = [tp EXCEPT !.to = res,
                        !.first = IF tp.passes = 0 THEN res ELSE @,
                        !.passes = @ + 1]
  /\ UNCHANGED << driver_vars, qz, d1, tool >>

NextTranspose == TransposeCall

SpecTranspose == InitTranspose /\ [][NextTranspose]_vars

\* C7: for each of the three strategies, transposing any 8x8 buffer twice
\* gives back the buffer exactly
C7_TransposeTwiceIsIdentity ==
  (tp.pc = "transpose" /\ tp.passes = 2) => tp.to = tp.from

\* a vector strategy has run twice on a buffer that one call does change
C7_Witness ==
  /\ tp.pc = "transpose"
  /\ tp.passes = 2
  /\ tp.target = "GE256"
  /\ tp.first # tp.from
  /\ tp.first[1] = tp.from[8]

\* -------------------------------------------------- quantizer, run on its own
\* coefficient blocks handed to the quantizers: multiples of a quarter
QuantInput(id) ==
  Stored([k \in 0 .. kDCTBlockSize - 1 |-> (((7 * k + 5 * id) % 41) - 20) * (One \div 4)])

\* quantization field values (never negative) and multipliers tried
RelQs == {0, One \div 2, One, 2 * One}

Multipliers == {-One, 0, One \div 4, One \div 2, One, 2 * One}

\* thresholds tried on the two paths, doubled and scaled by One * One:
\* -0.5, 0, 0.25, 0.5, 0.5 + 1/(2 One), 0.75, just under 1, 1, 1.5
Thresholds2 ==
  {-(One * One), 0, (One * One) \div 2, One * One, One * One + One,
   (3 * One * One) \div 2, 2 * One * One - 1, 2 * One * One, 3 * One * One}

\* number of zero coefficients of a block
Zeros(block) == Cardinality({k \in 0 .. kDCTBlockSize - 1 : block[k] = 0})

\* the adaptive path of ComputeDCTCoefficients on one block: threshold,
\* QuantizeBlock, DC override
AdaptiveBlock(dct, qmc, zero_bias_mul, relq) ==
  StoreDC(QuantizeBlock(dct, qmc, ZeroBias2(zero_bias_mul, relq)), dct, qmc)

InitQuant ==
  /\ \E id \in 0 .. MaxDctBlocks - 1, tab \in QuantTables :
       qz = [pc |-> "ready", dct |-> QuantInput(id), quant_mul |-> tab]
  /\ cinfo = Idle /\ DriverStart
  /\ tp = Idle /\ d1 = Idle /\ tool = Idle

\* the same block quantized on the adaptive path under two multipliers
QuantizeAdaptiveTwice ==
  /\ qz.pc = "ready"
  /\ \E relq \in RelQs, a \in Multipliers, b \in Multipliers :
       /\ a <= b
       /\ \E qmc \in {QuantMul(qz.quant_mul)} :
            qz' = [pc |-> "adaptive", dct |-> qz.dct, quant_mul |-> qz.quant_mul,
                   relq |-> relq, mul_a |-> a, mul_b |-> b,
                   block_a |-> AdaptiveBlock(qz.dct, qmc, a, relq),
                   block_b |-> AdaptiveBlock(qz.dct, qmc, b, relq)]
  /\ UNCHANGED << driver_vars, tp, d1, tool >>

\* the same block quantized by QuantizeBlockNoAQ and by QuantizeBlock with
\* one threshold for all positions
QuantizeBothPaths ==
  /\ qz.pc = "ready"
  /\ \E thr2 \in Thresholds2 :
       \E qmc \in {QuantMul(qz.quant_mul)} :
         qz' = [pc |-> "both", dct |-> qz.dct, quant_mul |-> qz.quant_mul,
                zero_bias2 |-> thr2,
                block_noaq |-> StoreDC(QuantizeBlockNoAQ(qz.dct, qmc), qz.dct, qmc),
                block_aq |-> StoreDC(QuantizeBlock(qz.dct, qmc, thr2), qz.dct, qmc)]
  /\ UNCHANGED << driver_vars, tp, d1, tool >>

NextQuant == QuantizeAdaptiveTwice \/ QuantizeBothPaths

SpecQuant == InitQuant /\ [][NextQuant]_vars

\* C4: for one block, table and field value, the larger zero_bias_mul never
\* gives fewer zero coefficients
C4_ZerosMonotoneInMultiplier ==
  qz.pc = "adaptive" => Zeros(qz.block_b) >= Zeros(qz.block_a)

\* the larger multiplier zeroes strictly more coefficients
C4_Witness ==
  /\ qz.pc = "adaptive"
  /\ qz.mul_a < qz.mul_b
  /\ qz.relq > 0
  /\ Zeros(qz.block_b) > Zeros(qz.block_a)

\* C5 as stated: with any threshold below 1 the adaptive quantizer leaves as
\* many zero coefficients as QuantizeBlockNoAQ
C5_SameZerosBelowOne ==
  (qz.pc = "both" /\ qz.zero_bias2 < 2 * One * One)
    => Zeros(qz.block_aq) = Zeros(qz.block_noaq)

\* C5: with any threshold of at most 0.5 the adaptive quantizer leaves as many
\* zero coefficients as QuantizeBlockNoAQ
C5_SameZerosUpToHalf ==
  (qz.pc = "both" /\ qz.zero_bias2 <= One * One)
    => Zeros(qz.block_aq) = Zeros(qz.block_noaq)

\* threshold exactly 0.5 on a block with a product of magnitude exactly 0.5,
\* products that round to zero and products that do not
C5_Witness ==
  /\ qz.pc = "both"
  /\ qz.zero_bias2 = One * One
  /\ \E qmc \in {QuantMul(qz.quant_mul)} :
       \E k \in 1 .. kDCTBlockSize - 1 : 2 * AbsInt(qz.dct[k] * qmc[k]) = One * One
  /\ Zeros(qz.block_noaq) > 0
  /\ Zeros(qz.block_noaq) < kDCTBlockSize
  /\ qz.block_aq = qz.block_noaq

\* ------------------------------------------------- 1D DCT, run on one lane
\* the N samples of one lane
LaneInput(N, id) ==
  Stored([i \in 0 .. N - 1 |-> ((3 * i * i + 17 * id + i * id) % 256) * One])

InitDCT1D ==
  /\ \E N \in {4, 8}, id \in 0 .. MaxLanes - 1 :
       d1 = [pc |-> "ready", N |-> N, mem |-> LaneInput(N, id)]
  /\ cinfo = Idle /\ DriverStart
  /\ tp = Idle /\ qz = Idle /\ tool = Idle

\* DCT1DImpl<N>()(mem) on the lane
RunDCT1DImpl ==
  /\ d1.pc = "ready"
  /\ \E res \in {DCT1DImpl(d1.N, d1.mem)} :
       d1' = [pc |-> "done", N |-> d1.N, mem |-> d1.mem, out |-> res]
  /\ UNCHANGED << driver_vars, tp, qz, tool >>

NextDCT1D == RunDCT1DImpl

SpecDCT1D == InitDCT1D /\ [][NextDCT1D]_vars

\* the two halves of the input of a finished run
LaneLo == Slice(d1.mem, 0, d1.N \div 2)

LaneHi == Slice(d1.mem, d1.N \div 2, d1.N \div 2)

\* the sum half lands on the even indices
EvenFromSumHalf ==
  \A sum \in {DCT1DImpl(d1.N \div 2, AddReverse(d1.N \div 2, LaneLo, LaneHi))} :
    \A j \in 0 .. d1.N \div 2 - 1 : d1.out[2 * j] = sum[j]

\* C9 as stated: the difference half is transformed at size N/2, then
\* boundary-corrected, then multiplied by the table, and lands on the odd
\* indices; the sum half lands on the even indices
C9_MultipliedAfterCorrection ==
  d1.pc = "done" =>
    /\ EvenFromSumHalf
    /\ \A h \in {d1.N \div 2} :
         \A dif \in {MultiplyHalf(d1.N, B(h, DCT1DImpl(h, SubReverse(h, LaneLo, LaneHi))))} :
           \A j \in 0 .. h - 1 : d1.out[2 * j + 1] = dif[j]

\* C9: the difference half is multiplied by the table, then transformed at
\* size N/2, then boundary-corrected, and lands on the odd indices; the sum
\* half lands on the even indices
C9_MultipliedBeforeTransform ==
  d1.pc = "done" =>
    /\ EvenFromSumHalf
    /\ \A h \in {d1.N \div 2} :
         \A dif \in {B(h, DCT1DImpl(h, MultiplyHalf(d1.N, SubReverse(h, LaneLo, LaneHi))))} :
           \A j \in 0 .. h - 1 : d1.out[2 * j + 1] = dif[j]

\* a finished 8-point run whose odd outputs are not what the other order of
\* the three steps gives
C9_Witness ==
  /\ d1.pc = "done"
  /\ d1.N = 8
  /\ \A dif \in {MultiplyHalf(8, B(4, DCT1DImpl(4, SubReverse(4, LaneLo, LaneHi))))} :
       \E j \in 0 .. 3 : d1.out[2 * j + 1] # dif[j]

\* ------------------------------------------------------ the comparison tool
\* command-line words after the two image paths
Tokens ==
  {"--distmap", "--rawdistmap", "--pfm-distance", "--colorspace",
   "--intensity_target", "--pnorm", "3", "map.png", "map.pfm"}

\* std::stof / strtod convert the word
IsNumber(word) == word = "3"

\* the last four characters of the name are ".pfm"
HasPfmExtension(name) == name = "map.pfm"

\* what the tool finds outside: whether each image decodes, the sizes of the
\* decoded images, and whether files can be opened and written
Environments ==
  [readable1 : BOOLEAN, readable2 : BOOLEAN,
   xsize1 : {1}, xsize2 : {1, 2}, ysize1 : {1}, ysize2 : {1, 2},
   files : {"ok", "no_open", "no_write"}]

\* the effects of a call: result, lines on the two streams, files opened
Effects(result, out, err, opened) ==
  [result |-> result, stdout |-> out, stderr |-> err, opened |-> opened]

\* WritePFM(image, filename)
WritePFM(env, filename) ==
  IF ~HasPfmExtension(filename)
    THEN Effects(FALSE, << "wrong file extension" >>, << >>, {})
  ELSE IF env.files = "no_open"
    THEN Effects(FALSE, << "unable to open file for writing" >>, << >>, {})
  ELSE IF env.files = "no_write"
    THEN Effects(FALSE, << "Error writing to file" >>, << >>, {filename})
  ELSE Effects(TRUE, << >>, << >>, {filename})

\* WriteImage(image, filename): EncodeToFile
WriteImage(env, filename) ==
  IF env.files = "ok" THEN Effects(TRUE, << >>, << >>, {filename})
  ELSE IF env.files = "no_open" THEN Effects(FALSE, << >>, << >>, {})
  ELSE Effects(FALSE, << >>, << >>, {filename})

\* the effects so far followed by those of the next call; a failed JXL_CHECK
\* aborts the process
Then(sofar, call) ==
  IF sofar.result # "running" THEN sofar
  ELSE Effects(IF call.result THEN "running" ELSE "abort",
               sofar.stdout \o call.stdout,
               sofar.stderr \o (IF call.result THEN call.stderr
                                ELSE call.stderr \o << "JXL_CHECK" >>),
               sofar.opened \cup call.opened)

\* RunButteraugli from the distance computation on: the two printed lines,
\* then the three optional files
CompareAndWrite(env, distmap, raw_distmap, pfm_distmap) ==
  LET printed == Effects("running", << "distance", "pnorm" >>, << >>, {})
      heat == IF distmap # "" THEN Then(printed, WriteImage(env, distmap))
              ELSE printed
      pfm == IF pfm_distmap # "" THEN Then(heat, WritePFM(env, pfm_distmap))
             ELSE heat
      raw == IF raw_distmap # ""
               THEN Then(pfm, IF env.files = "no_open"
                                THEN Effects(FALSE, << >>, << >>, {})
                                ELSE Effects(TRUE, << >>, << >>, {raw_distmap}))
             ELSE pfm
  IN IF raw.result = "running" THEN [raw EXCEPT !.result = "true"] ELSE raw

\* RunButteraugli without the comparison of the heights
RunButteraugliIgnoringHeight(env, distmap, raw_distmap, pfm_distmap) ==
  IF ~env.readable1
    THEN Effects("false", << >>, << "Failed to read image from 1" >>, {})
  ELSE IF ~env.readable2
    THEN Effects("false", << >>, << "Failed to read image from 2" >>, {})
  ELSE IF env.xsize1 # env.xsize2
    THEN Effects("false", << >>, << "Width mismatch" >>, {})
  ELSE CompareAndWrite(env, distmap, raw_distmap, pfm_distmap)

\* RunButteraugli(pathname1, pathname2, distmap_filename,
\* raw_distmap_filename, pfm_distmap_filename, ...)
RunButteraugli(env, distmap, raw_distmap, pfm_distmap) ==
  IF ~env.readable1
    THEN Effects("false", << >>, << "Failed to read image from 1" >>, {})
  ELSE IF ~env.readable2
    THEN Effects("false", << >>, << "Failed to read image from 2" >>, {})
  ELSE IF env.xsize1 # env.xsize2
    THEN Effects("false", << >>, << "Width mismatch" >>, {})
  ELSE IF env.ysize1 # env.ysize2
    THEN Effects("false", << >>, << "Height mismatch" >>, {})
  ELSE CompareAndWrite(env, distmap, raw_distmap, pfm_distmap)

RECURSIVE ParseFlags(_, _, _)

\* the flag loop of main from argv[i] on; args[i] is argv[i], and
\* i + 1 < argc is i + 1 <= Len(args)
ParseFlags(args, i, o) ==
  IF i > Len(args) THEN o
  ELSE
    LET flag == args[i]
        has == i + 1 <= Len(args)
    IN IF flag = "--distmap" /\ has
         THEN ParseFlags(args, i + 2, [o EXCEPT !.distmap = args[i + 1]])
       ELSE IF flag = "--rawdistmap" /\ has
         THEN ParseFlags(args, i + 2, [o EXCEPT !.raw_distmap = args[i + 1]])
       ELSE IF flag = "--pfm-distance" /\ has
         THEN ParseFlags(args, i + 2, [o EXCEPT !.pfm_distmap = args[i + 1]])
       ELSE IF flag = "--colorspace" /\ has
         THEN ParseFlags(args, i + 2, [o EXCEPT !.colorspace = args[i + 1]])
       ELSE IF flag = "--intensity_target" /\ has
         THEN IF IsNumber(args[i + 1])
                THEN ParseFlags(args, i + 2, [o EXCEPT !.intensity_target = args[i + 1]])
                ELSE [o EXCEPT !.status = "terminate"]
       ELSE IF flag = "--pnorm" /\ has
         THEN IF IsNumber(args[i + 1])
                THEN ParseFlags(args, i + 2, [o EXCEPT !.p = args[i + 1]])
                ELSE [o EXCEPT !.status = "Failed to parse pnorm"]
       ELSE [o EXCEPT !.status = "Unrecognized flag"]

\* the option variables of main before the loop
DefaultOptions ==
  [status |-> "ok", distmap |-> "", raw_distmap |-> "", pfm_distmap |-> "",
   colorspace |-> "", p |-> "3", intensity_target |-> "80"]

\* the process from start to exit: exit is "0", "1" or "abort" (abnormal
\* termination, a non-zero status)
MainRun(args, env) ==
  IF Len(args) + 1 < 3
    THEN [exit |-> "1", called |-> FALSE, returned |-> "none", stdout |-> << >>,
          stderr |-> << "Usage" >>, opened |-> {}]
  ELSE
    LET o == ParseFlags(args, 3, DefaultOptions)
        r == RunButteraugli(env, o.distmap, o.raw_distmap, o.pfm_distmap)
    IN IF o.status = "terminate"
         THEN [exit |-> "abort", called |-> FALSE, returned |-> "none",
               stdout |-> << >>, stderr |-> << >>, opened |-> {}]
       ELSE IF o.status # "ok"
         THEN [exit |-> "1", called |-> FALSE, returned |-> "none",
               stdout |-> << >>, stderr |-> << o.status >>, opened |-> {}]
       ELSE [exit |-> IF r.result = "true" THEN "0"
                      ELSE IF r.result = "false" THEN "1" ELSE "abort",
             called |-> TRUE, returned |-> r.result, stdout |-> r.stdout,
             stderr |-> r.stderr, opened |-> r.opened]

\* the argument lists tried: one path only, or two paths and up to
\* MaxFlagArgs further words
ArgLists ==
  {<< "ref" >>} \cup
  {<< "ref", "dist" >> \o f : f \in UNION {[1 .. n -> Tokens] : n \in 0 .. MaxFlagArgs}}

InitTool ==
  /\ \E args \in ArgLists, env \in Environments :
       tool = [pc |-> "start", args |-> args, env |-> env]
  /\ cinfo = Idle /\ DriverStart
  /\ tp = Idle /\ qz = Idle /\ d1 = Idle

\* int main(int argc, char** argv)
main ==
  /\ tool.pc = "start"
  /\ \E run \in {MainRun(tool.args, tool.env)} :
       tool' = [pc |-> "exited", args |-> tool.args, env |-> tool.env, run |-> run]
  /\ UNCHANGED << driver_vars, tp, qz, d1 >>

NextTool == main

SpecTool == InitTool /\ [][NextTool]_vars

\* an input image cannot be read, or the two images differ in width or height
BadInputs(env) ==
  \/ ~env.readable1
  \/ ~env.readable2
  \/ env.xsize1 # env.xsize2
  \/ env.ysize1 # env.ysize2

\* C8: when an input image cannot be read or the images differ in width or
\* height, RunButteraugli returns false after a diagnostic on standard error
\* and the process exits with status 1; in every such run, also one that the
\* flag loop ends first, the exit status is non-zero, no distance or p-norm
\* line is printed and no output file is opened
C8_BadInputsFailCleanly ==
  (tool.pc = "exited" /\ Len(tool.args) >= 2 /\ BadInputs(tool.env)) =>
    /\ tool.run.exit # "0"
    /\ tool.run.stdout = << >>
    /\ tool.run.opened = {}
    /\ tool.run.called =>
         /\ tool.run.returned = "false"
         /\ tool.run.exit = "1"
         /\ Len(tool.run.stderr) = 1
         /\ tool.run.stderr[1] \in {"Failed to read image from 1",
                                    "Failed to read image from 2",
                                    "Width mismatch", "Height mismatch"}

\* both images are read and differ in height only, with a heat map asked for
C8_Witness ==
  /\ tool.pc = "exited"
  /\ tool.env.readable1 /\ tool.env.readable2
  /\ tool.env.xsize1 = tool.env.xsize2
  /\ tool.env.ysize1 # tool.env.ysize2
  /\ tool.args = << "ref", "dist", "--distmap", "map.png" >>
  /\ tool.run.called
  /\ tool.run.stderr = << "Height mismatch" >>

=============================================================================
